---- MODULE Spec2Model ----
(***************************************************************************)
(* Model of the beads-blueprint release toolkit:                           *)
(*   regenerate_changelog.py  (commit classification, grouping, draft      *)
(*                             assembly, changelog scaffolding)            *)
(*   scripts/plan_to_beads.py (plan parser, issue record builder)          *)
(*                                                                         *)
(* Python strings are modelled as sequences of one-character strings, so   *)
(* that regular expressions, strip/split/startswith and the like are       *)
(* computed character by character as the interpreter computes them.       *)
(***************************************************************************)
EXTENDS Integers, Sequences, FiniteSets, TLC

VARIABLES
    \* ---- regenerate_changelog.py --json (generate_draft_json) ----
    git,            \* state of the git installation / repository
    preview,        \* the --preview flag
    version_file,   \* "ok" or "bad": whether version.py holds __version__
    gitlog,         \* the subjects `git log` would print, newest first
    store,          \* .beads/issues.jsonl: [exists, lines]
    dpc,            \* position inside generate_draft_json
    latest_tag,     \* local latest_tag
    commits,        \* local commits
    grouped,        \* local grouped (insertion-ordered dict)
    draft,          \* changelog_draft.json: [written, ...fields]
    fault,          \* the exception that ended the run, or NoFault
    \* ---- pure functions applied to one input ----
    input,          \* the parts the commit subject is built from
    output,         \* [done, value]: the function's result once applied
    \* ---- regenerate_changelog.py --version (ensure_version_section) ----
    changelog,      \* changelog.md: [exists, text]
    calls,          \* number of ensure_version_section calls so far
    last_version,   \* version_str of the most recent call
    prev_version,   \* version_str of the call before it
    before_last,    \* changelog.md as it was before the most recent call
    \* ---- scripts/plan_to_beads.py ----
    lines,          \* plan lines consumed so far by parse_plan
    items,          \* local items (list of PlanItem)
    current_feature,\* index into items of current_feature, 0 for None
    current_task,   \* index into items of current_task, 0 for None
    ppc,            \* position inside parse_plan / main
    plan,           \* the plan file: [exists, text]
    tools,          \* what bd and git answer: [bd, git, name, email]
    prefix,         \* local prefix of main
    ident,          \* [created_by, owner]: the locals of main
    records         \* the issue records written by write_jsonl

vars == <<git, preview, version_file, gitlog, store, dpc, latest_tag, commits,
          grouped, draft, fault, input, output, changelog, calls, last_version,
          prev_version, before_last, lines, items, current_feature,
          current_task, ppc, plan, tools, prefix, ident, records>>

draftVars == <<git, preview, version_file, gitlog, store, dpc, latest_tag,
               commits, grouped, draft, fault>>
pureVars == <<input, output>>
scaffoldVars == <<changelog, calls, last_version, prev_version, before_last>>
parseVars == <<lines, items, current_feature, current_task>>
mainVars == <<plan, tools, prefix, ident, records>>
planVars == <<parseVars, ppc, mainVars>>

-----------------------------------------------------------------------------
(* Python values *)

\* None: a one-element sequence no string of characters is equal to.
None == <<"<None>">>
NoFile == [exists |-> FALSE, text |-> <<>>]
File(text) == [exists |-> TRUE, text |-> text]
NoFault == "none"
Pending == [done |-> FALSE, value |-> <<>>]
Returned(v) == [done |-> TRUE, value |-> v]

-----------------------------------------------------------------------------
(* str methods *)

LowerLetters == <<"a","b","c","d","e","f","g","h","i","j","k","l","m",
                  "n","o","p","q","r","s","t","u","v","w","x","y","z">>
UpperLetters == <<"A","B","C","D","E","F","G","H","I","J","K","L","M",
                  "N","O","P","Q","R","S","T","U","V","W","X","Y","Z">>
Digits == <<"0","1","2","3","4","5","6","7","8","9">>

Range(s) == {s[i] : i \in DOMAIN s}

IsLower(c) == c \in Range(LowerLetters)
IsUpper(c) == c \in Range(UpperLetters)
IsDigit(c) == c \in Range(Digits)
\* \w of the re module, over the characters used here
IsWord(c) == IsLower(c) \/ IsUpper(c) \/ IsDigit(c) \/ c = "_"
\* [a-z0-9] under re.IGNORECASE
IsAlnumCI(c) == IsLower(c) \/ IsUpper(c) \/ IsDigit(c)
\* \s and the characters str.strip() removes (newline included)
IsSpace(c) == c \in {" ", "\t", "\n"}

LowerChar(c) ==
    IF IsUpper(c)
    THEN LowerLetters[CHOOSE i \in DOMAIN UpperLetters : UpperLetters[i] = c]
    ELSE c

\* str.lower()
Lower(s) == [i \in DOMAIN s |-> LowerChar(s[i])]

\* s[a:b] with 1-based inclusive positions; empty when a > b
Sub(s, a, b) == IF a > b THEN <<>> ELSE SubSeq(s, a, b)

\* lit occurs in s starting at position p
MatchAt(s, p, lit) ==
    /\ p >= 1
    /\ p + Len(lit) - 1 <= Len(s)
    /\ \A k \in 1..Len(lit) : s[p + k - 1] = lit[k]

\* the same, ignoring case (lit is given in lower case)
MatchAtCI(s, p, lit) ==
    /\ p >= 1
    /\ p + Len(lit) - 1 <= Len(s)
    /\ \A k \in 1..Len(lit) : LowerChar(s[p + k - 1]) = lit[k]

\* str.startswith / str.endswith / `lit in s`
StartsWith(s, lit) == MatchAt(s, 1, lit)
EndsWith(s, lit) == MatchAt(s, Len(s) - Len(lit) + 1, lit)
Contains(s, lit) == \E p \in 1..(Len(s) + 1) : MatchAt(s, p, lit)

\* str.find: position of the first occurrence, 0 when there is none
Find(s, lit) ==
    IF Contains(s, lit)
    THEN CHOOSE p \in 1..(Len(s) + 1) :
            /\ MatchAt(s, p, lit)
            /\ \A q \in 1..(p - 1) : ~MatchAt(s, q, lit)
    ELSE 0

\* str.rfind: position of the last occurrence, 0 when there is none
RFind(s, lit) ==
    IF Contains(s, lit)
    THEN CHOOSE p \in 1..(Len(s) + 1) :
            /\ MatchAt(s, p, lit)
            /\ \A q \in (p + 1)..(Len(s) + 1) : ~MatchAt(s, q, lit)
    ELSE 0

\* number of leading / trailing whitespace characters
LeadSpaces(s) ==
    CHOOSE n \in 0..Len(s) :
        /\ \A k \in 1..n : IsSpace(s[k])
        /\ (n < Len(s) => ~IsSpace(s[n + 1]))
TrailSpaces(s) ==
    CHOOSE n \in 0..Len(s) :
        /\ \A k \in 1..n : IsSpace(s[Len(s) - k + 1])
        /\ (n < Len(s) => ~IsSpace(s[Len(s) - n]))

\* str.lstrip() / str.rstrip() / str.strip()
LStrip(s) == Sub(s, LeadSpaces(s) + 1, Len(s))
RStrip(s) == Sub(s, 1, Len(s) - TrailSpaces(s))
Strip(s) == LStrip(RStrip(s))

\* str.rstrip(ch): every trailing ch removed
RStripChar(s, ch) ==
    LET n == CHOOSE n \in 0..Len(s) :
                /\ \A k \in 1..n : s[Len(s) - k + 1] = ch
                /\ (n < Len(s) => s[Len(s) - n] # ch)
    IN Sub(s, 1, Len(s) - n)

\* s.split(lit, 1)[1]: what follows the first occurrence of lit
AfterFirst(s, lit) == Sub(s, Find(s, lit) + Len(lit), Len(s))

\* s with the n characters at position p cut out (s itself when p = 0)
CutOut(s, p, n) ==
    IF p = 0 THEN s ELSE Sub(s, 1, p - 1) \o Sub(s, p + n, Len(s))

\* s.replace(lit, "", 1): the first occurrence of lit removed
RemoveFirst(s, lit) == CutOut(s, Find(s, lit), Len(lit))

\* length of the longest run of characters satisfying P that starts at p
RunLen(s, p, P(_)) ==
    CHOOSE n \in 0..(Len(s) - p + 1) :
        /\ \A k \in 0..(n - 1) : P(s[p + k])
        /\ (p + n <= Len(s) => ~P(s[p + n]))

\* "".join(parts) and sep.join(parts)
RECURSIVE Concat(_)
Concat(parts) ==
    IF parts = <<>> THEN <<>> ELSE Head(parts) \o Concat(Tail(parts))

RECURSIVE Join(_, _)
Join(parts, sep) ==
    IF parts = <<>> THEN <<>>
    ELSE IF Len(parts) = 1 THEN parts[1]
    ELSE parts[1] \o sep \o Join(Tail(parts), sep)

\* s.split(ch) for a one-character separator
RECURSIVE Split(_, _)
SplitAt(s, p, ch) ==
    IF p = 0 THEN <<s>>
    ELSE <<Sub(s, 1, p - 1)>> \o Split(Sub(s, p + 1, Len(s)), ch)
Split(s, ch) == SplitAt(s, Find(s, <<ch>>), ch)

\* [x for x in seq if x]
RECURSIVE NonEmpty(_)
NonEmpty(seq) ==
    IF seq = <<>> THEN <<>>
    ELSE IF Head(seq) = <<>> THEN NonEmpty(Tail(seq))
    ELSE <<Head(seq)>> \o NonEmpty(Tail(seq))

-----------------------------------------------------------------------------
(* regenerate_changelog.py: string literals *)

S_paren_open == <<"(","b","d","-">>
S_closes == <<"c","l","o","s","e","s">>
S_store_prefix == <<"b","e","a","d","s","-","b","l","u","e","p","r","i","n","t","-">>
S_beads_key == <<"b","e","a","d","s",":">>
S_issue == <<"I","s","s","u","e"," ">>
S_feat == <<"f","e","a","t">>
S_fix == <<"f","i","x">>
S_docs == <<"d","o","c","s">>
S_refactor == <<"r","e","f","a","c","t","o","r">>
S_perf == <<"p","e","r","f">>
S_test == <<"t","e","s","t">>
S_chore == <<"c","h","o","r","e">>
S_style == <<"s","t","y","l","e">>
S_build == <<"b","u","i","l","d">>
S_ci == <<"c","i">>
Features == <<"F","e","a","t","u","r","e","s">>
BugFixes == <<"B","u","g"," ","F","i","x","e","s">>
Documentation == <<"D","o","c","u","m","e","n","t","a","t","i","o","n">>
Performance == <<"P","e","r","f","o","r","m","a","n","c","e">>
CodeQuality == <<"C","o","d","e"," ","Q","u","a","l","i","t","y">>
Other == <<"O","t","h","e","r">>
S_initial_commit == <<"i","n","i","t","i","a","l"," ","c","o","m","m","i","t">>

-----------------------------------------------------------------------------
(* extract_beads_issue *)

\* the order a slip would give: the Closes form tried first
patterns_closes_first == <<"closes", "parenthetical">>

\* the two regular expressions, in the order the loop tries them
patterns == <<"parenthetical", "closes">>

\* r"\(bd-([a-z0-9]+)\)" with re.IGNORECASE matches at position p:
\* the group is the whole run of [a-z0-9] after "(bd-", n characters long
ParenClosed(s, p, n) == n >= 1 /\ p + 4 + n <= Len(s) /\ s[p + 4 + n] = ")"
ParenMatchAt(s, p) ==
    /\ MatchAtCI(s, p, S_paren_open)
    /\ ParenClosed(s, p, RunLen(s, p + 4, IsAlnumCI))

\* r"Closes\s+beads-blueprint-([a-z0-9]+)" with re.IGNORECASE matches at p:
\* w characters of white space follow "Closes"
ClosesTail(s, p, w) ==
    /\ w >= 1
    /\ MatchAtCI(s, p + 6 + w, S_store_prefix)
    /\ RunLen(s, p + 6 + w + Len(S_store_prefix), IsAlnumCI) >= 1
ClosesMatchAt(s, p) ==
    /\ MatchAtCI(s, p, S_closes)
    /\ ClosesTail(s, p, RunLen(s, p + 6, IsSpace))

PatternMatchAt(pattern, s, p) ==
    IF pattern = "parenthetical" THEN ParenMatchAt(s, p) ELSE ClosesMatchAt(s, p)

\* the run of [a-z0-9] that starts at position g
AlnumRun(s, g) == Sub(s, g, g + RunLen(s, g, IsAlnumCI) - 1)

\* match.group(1) of a match at p
PatternGroup(pattern, s, p) ==
    IF pattern = "parenthetical" THEN AlnumRun(s, p + 4)
    ELSE AlnumRun(s, p + 6 + RunLen(s, p + 6, IsSpace) + Len(S_store_prefix))

\* position of the leftmost match, 0 when there is none
FirstMatch(pattern, s) ==
    IF \E p \in 1..Len(s) : PatternMatchAt(pattern, s, p)
    THEN CHOOSE p \in 1..Len(s) :
            /\ PatternMatchAt(pattern, s, p)
            /\ \A q \in 1..(p - 1) : ~PatternMatchAt(pattern, s, q)
    ELSE 0

\* the loop over the patterns: the first one re.search finds decides
RECURSIVE TryPatterns(_, _)
MatchedOrNext(ps, s, p) ==
    IF p # 0 THEN Lower(PatternGroup(Head(ps), s, p))
    ELSE TryPatterns(Tail(ps), s)
TryPatterns(ps, s) ==
    IF ps = <<>> THEN None ELSE MatchedOrNext(ps, s, FirstMatch(Head(ps), s))

extract_beads_issue(commit_msg) == TryPatterns(patterns, commit_msg)

-----------------------------------------------------------------------------
(* get_beads_issue_title *)

\* A line of .beads/issues.jsonl is modelled by what json.loads makes of it:
\*   kind "blank"     line.strip() is empty
\*   kind "invalid"   json.loads raises JSONDecodeError
\*   kind "nonobject" json.loads returns a list, number, string or null
\*   kind "object"    json.loads returns a dict; id / title are None when the
\*                    key is absent
RECURSIVE ScanStore(_, _)
ScanStore(ls, full_id) ==
    IF ls = <<>> THEN [exc |-> NoFault, value |-> None]
    ELSE LET line == Head(ls) IN
         CASE line.kind = "blank" -> ScanStore(Tail(ls), full_id)
           [] line.kind = "invalid" -> [exc |-> NoFault, value |-> None]
           [] line.kind = "nonobject" ->
                [exc |-> "AttributeError", value |-> None]
           [] OTHER ->
                IF line.id = full_id
                THEN [exc |-> NoFault,
                      value |-> IF line.title = None THEN <<>> ELSE line.title]
                ELSE ScanStore(Tail(ls), full_id)

get_beads_issue_title(issue_id) ==
    IF ~store.exists THEN [exc |-> NoFault, value |-> None]
    ELSE ScanStore(store.lines, S_store_prefix \o issue_id)

-----------------------------------------------------------------------------
(* categorize_commit *)

ConvTypes == <<S_feat, S_fix, S_docs, S_refactor, S_perf,
               S_test, S_chore, S_style, S_build, S_ci>>

\* the table with the perf entry left out
type_map_without_perf(commit_type) ==
    CASE commit_type = S_feat -> Features
      [] commit_type = S_fix -> BugFixes
      [] commit_type = S_docs -> Documentation
      [] commit_type = S_refactor -> CodeQuality
      [] OTHER -> Other

\* type_map.get(commit_type, "Other")
type_map(commit_type) ==
    CASE commit_type = S_feat -> Features
      [] commit_type = S_fix -> BugFixes
      [] commit_type = S_docs -> Documentation
      [] commit_type = S_perf -> Performance
      [] commit_type = S_refactor -> CodeQuality
      [] OTHER -> Other

SetMax(S) == CHOOSE x \in S : \A y \in S : y <= x

\* r":\s*(.+)$" on the text after the colon: \s* takes k characters and
\* (.+) the next m; "." is any character but newline, "$" is the end of the
\* string or the place before a final newline
Group3Ok(rest, k, m) ==
    /\ m >= 1
    /\ k + m <= Len(rest)
    /\ \A j \in (k + 1)..(k + m) : rest[j] # "\n"
    /\ \/ k + m = Len(rest)
       \/ k + m = Len(rest) - 1 /\ rest[Len(rest)] = "\n"

\* group 3 once \s* has taken k characters: (.+) is greedy
Group3From(rest, k) ==
    Sub(rest, k + 1, k + SetMax({m \in 1..Len(rest) : Group3Ok(rest, k, m)}))

\* the match with the longest \s* (greedy); None when nothing matches
Group3Among(rest, ks) ==
    IF ks = {} THEN None ELSE Group3From(rest, SetMax(ks))

Group3(rest) ==
    Group3Among(rest, {k \in 0..LeadSpaces(rest) :
                          \E m \in 1..Len(rest) : Group3Ok(rest, k, m)})

NoMatch == [matched |-> FALSE, type |-> None, msg |-> None]
NotClose(c) == c # ")"

\* the rest of the match once the type t and the optional scope are read
\* and the colon is expected at position colon
ConvTail(s, t, colon, msg) ==
    IF colon <= Len(s) /\ s[colon] = ":" /\ msg # None
    THEN [matched |-> TRUE, type |-> t, msg |-> msg]
    ELSE NoMatch

ConvColon(s, t, colon) == ConvTail(s, t, colon, Group3(Sub(s, colon + 1, Len(s))))

\* (\([^)]+\))? after the type, which ends before position q: n is the
\* length of the run of [^)] after an opening parenthesis at q
ConvScope(s, t, q, n) ==
    IF n >= 1 /\ q + 1 + n <= Len(s) THEN ConvColon(s, t, q + n + 2)
    ELSE ConvColon(s, t, q)

ConvType(s, t) ==
    ConvScope(s, t, Len(t) + 1,
              IF Len(t) + 1 <= Len(s) /\ s[Len(t) + 1] = "("
              THEN RunLen(s, Len(t) + 2, NotClose) ELSE 0)

ConvFirst(s, cands) == IF cands = <<>> THEN NoMatch ELSE ConvType(s, cands[1])

\* re.match of the conventional-commit expression:
\*   ^(feat|fix|...|ci)(\([^)]+\))?:\s*(.+)$
\* [matched, type, msg] with msg = match.group(3)
ConvMatch(s) == ConvFirst(s, SelectSeq(ConvTypes, LAMBDA t : StartsWith(s, t)))

FeatureWords == {<<"a","d","d">>, <<"i","m","p","l","e","m","e","n","t">>, <<"c","r","e","a","t","e">>, <<"i","n","t","r","o","d","u","c","e">>}
FixWords == {S_fix, <<"r","e","s","o","l","v","e">>, <<"c","o","r","r","e","c","t">>, <<"p","a","t","c","h">>}

\* the fallback heuristics on the lowered subject
Heuristic(commit_msg, commit_lower) ==
    IF \E word \in FeatureWords : Contains(commit_lower, word)
    THEN <<Features, commit_msg>>
    ELSE IF \E word \in FixWords : Contains(commit_lower, word)
    THEN <<BugFixes, commit_msg>>
    ELSE <<Other, commit_msg>>

Categorized(commit_msg, match) ==
    IF match.matched
    THEN <<type_map(match.type), Strip(match.msg)>>
    ELSE Heuristic(commit_msg, Lower(commit_msg))

\* returns <<category, clean_message>>
categorize_commit(commit_msg) == Categorized(commit_msg, ConvMatch(commit_msg))

-----------------------------------------------------------------------------
(* group_commits *)

\* s.replace(lit, ""): every occurrence of lit removed, left to right
RECURSIVE RemoveAll(_, _)
RemoveAllAt(s, lit, p) ==
    IF p = 0 THEN s
    ELSE Sub(s, 1, p - 1) \o RemoveAll(Sub(s, p + Len(lit), Len(s)), lit)
RemoveAll(s, lit) == RemoveAllAt(s, lit, Find(s, lit))

\* defaultdict(list): an insertion-ordered sequence of [key, items]
DictHas(d, key) == \E i \in DOMAIN d : d[i].key = key
DictGet(d, key) == d[CHOOSE i \in DOMAIN d : d[i].key = key].items
\* grouped[key] = [item] in place of grouped[key].append(item)
DictAppend_overwrites(d, key, item) ==
    IF DictHas(d, key)
    THEN [i \in DOMAIN d |->
            IF d[i].key = key THEN [d[i] EXCEPT !.items = <<item>>] ELSE d[i]]
    ELSE Append(d, [key |-> key, items |-> <<item>>])

DictAppend(d, key, item) ==
    IF DictHas(d, key)
    THEN [i \in DOMAIN d |->
            IF d[i].key = key
            THEN [d[i] EXCEPT !.items = Append(@, item)] ELSE d[i]]
    ELSE Append(d, [key |-> key, items |-> <<item>>])

\* `x or default` / `if x:` for an optional string
Truthy(x) == x # None /\ x # <<>>

\* the loop of group_commits over the commits left, grouped so far in acc;
\* [exc, value]: the exception that escapes, or the dict returned
RECURSIVE GroupLoop(_, _)

\* the branch of a commit without a tracker reference
FileByCategory(cs, acc, cat) ==
    GroupLoop(Tail(cs), DictAppend(acc, cat[1], <<cat[2], Head(cs)>>))

\* the branch of a commit that refers to issue_id, looked up in the store
FileByIssue(cs, acc, issue_id, looked) ==
    IF looked.exc # NoFault THEN [exc |-> looked.exc, value |-> acc]
    ELSE GroupLoop(Tail(cs),
            DictAppend(acc, S_beads_key \o issue_id,
                       <<IF Truthy(looked.value) THEN looked.value
                         ELSE S_issue \o issue_id,
                         Head(cs)>>))

GroupOne(cs, acc, issue_id) ==
    IF Truthy(issue_id)
    THEN FileByIssue(cs, acc, issue_id, get_beads_issue_title(issue_id))
    ELSE FileByCategory(cs, acc, categorize_commit(Head(cs)))

GroupLoop(cs, acc) ==
    IF cs = <<>> THEN [exc |-> NoFault, value |-> acc]
    ELSE GroupOne(cs, acc, extract_beads_issue(Head(cs)))

group_commits(cs) == GroupLoop(cs, <<>>)

-----------------------------------------------------------------------------
(* generate_draft_json *)

S_unreleased == <<"v","X",".","Y",".","Z"," ","(","U","N","R","E","L","E","A","S","E","D",")">>
S_version == <<"1",".","2",".","3">>
S_today == <<"2","0","2","6","-","0","1","-","0","1">>
S_tag == <<"v","1",".","2",".","2">>

categories == <<Features, BugFixes, Documentation, Performance, CodeQuality,
                Other>>

\* [item[0] for item in items]
Firsts(its) == [j \in DOMAIN its |-> its[j][1]]

\* draft_data["grouped"]: for each category present, the cleaned messages
GroupedOf(g, present) ==
    [i \in DOMAIN present |->
        [key |-> present[i], value |-> Firsts(DictGet(g, present[i]))]]
DraftGrouped(g) == GroupedOf(g, SelectSeq(categories, LAMBDA c : DictHas(g, c)))

\* draft_data["beads_issues"]: for each "beads:" key, id -> first title;
\* empty when there is no such key (the field is then not written)
BeadsIssuesOf(beads_issues) ==
    [i \in DOMAIN beads_issues |->
        [key |-> RemoveAll(beads_issues[i].key, S_beads_key),
         value |-> beads_issues[i].items[1][1]]]
DraftBeadsIssues(g) ==
    BeadsIssuesOf(SelectSeq(g, LAMBDA e : StartsWith(e.key, S_beads_key)))

\* subprocess.run(["git", "describe", "--tags", "--abbrev=0"], check=True)
DescribeTag ==
    /\ dpc = "describe"
    /\ IF git = "missing"
       THEN /\ fault' = "FileNotFoundError"
            /\ dpc' = "crashed"
            /\ UNCHANGED latest_tag
       ELSE /\ latest_tag' = IF git = "tagged" THEN Strip(S_tag \o <<"\n">>)
                             ELSE None
            /\ dpc' = "log"
            /\ UNCHANGED fault
    /\ UNCHANGED <<git, preview, version_file, gitlog, store, commits,
                   grouped, draft>>
    /\ UNCHANGED <<pureVars, scaffoldVars, planVars>>

\* subprocess.run(["git", "log", range_spec, ...], check=True) and the
\* early return when there is no commit
LogCommits ==
    /\ dpc = "log"
    /\ commits' = IF git = "norepo" THEN <<>>
                  ELSE NonEmpty(Split(Strip(Join(gitlog, <<"\n">>)), "\n"))
    /\ dpc' = IF commits' = <<>> THEN "done" ELSE "group"
    /\ UNCHANGED <<git, preview, version_file, gitlog, store, latest_tag,
                   grouped, draft, fault>>
    /\ UNCHANGED <<pureVars, scaffoldVars, planVars>>

\* grouped = group_commits(commits)
Grouped(r) ==
    IF r.exc # NoFault
    THEN fault' = r.exc /\ dpc' = "crashed" /\ UNCHANGED grouped
    ELSE grouped' = r.value /\ dpc' = "assemble" /\ UNCHANGED fault
GroupCommits ==
    /\ dpc = "group"
    /\ Grouped(group_commits(commits))
    /\ UNCHANGED <<git, preview, version_file, gitlog, store, latest_tag,
                   commits, draft>>
    /\ UNCHANGED <<pureVars, scaffoldVars, planVars>>

\* draft_data is built and written to changelog_draft.json
AssembleDraft ==
    /\ dpc = "assemble"
    /\ IF ~preview /\ version_file = "bad"
       THEN /\ fault' = "ValueError"
            /\ dpc' = "crashed"
            /\ UNCHANGED draft
       ELSE /\ draft' =
                [written |-> TRUE,
                 version |-> IF preview THEN S_unreleased ELSE S_version,
                 date |-> S_today,
                 since_tag |-> IF Truthy(latest_tag) THEN latest_tag
                               ELSE S_initial_commit,
                 commit_count |-> Len(commits),
                 commits |-> commits,
                 grouped |-> DraftGrouped(grouped),
                 beads_issues |-> DraftBeadsIssues(grouped)]
            /\ dpc' = "done"
            /\ UNCHANGED fault
    /\ UNCHANGED <<git, preview, version_file, gitlog, store, latest_tag,
                   commits, grouped>>
    /\ UNCHANGED <<pureVars, scaffoldVars, planVars>>

-----------------------------------------------------------------------------
(* Inputs of the draft run *)

MaxCommits == 2

SubjectPool ==
    { <<"x"," ","(","b","d","-","a",")">>,
      <<"f","i","x",":"," ","y"," ","(","b","d","-","a",")">>,
      <<"f","e","a","t",":"," ","z">>,
      <<"z">>,
      <<"C","l","o","s","e","s"," ","b","e","a","d","s","-","b","l","u","e","p","r","i","n","t","-","b">> }

Seqs(S, n) == UNION {[1..k -> S] : k \in 0..n}

StoreLine(kind, id, title) == [kind |-> kind, id |-> id, title |-> title]
L_titled == StoreLine("object", <<"b","e","a","d","s","-","b","l","u","e","p","r","i","n","t","-","a">>, <<"T">>)
L_untitled == StoreLine("object", <<"b","e","a","d","s","-","b","l","u","e","p","r","i","n","t","-","b">>, None)
L_noid == StoreLine("object", None, <<"T">>)
L_blank == StoreLine("blank", None, None)
L_invalid == StoreLine("invalid", None, None)
L_nonobject == StoreLine("nonobject", None, None)

StoreFile(ls) == [exists |-> TRUE, lines |-> ls]
NoStore == [exists |-> FALSE, lines |-> <<>>]
NoDraft == [written |-> FALSE]

StorePool ==
    { NoStore, StoreFile(<<>>), StoreFile(<<L_titled>>),
      StoreFile(<<L_blank, L_noid, L_untitled, L_titled>>),
      StoreFile(<<L_invalid, L_titled>>), StoreFile(<<L_titled, L_invalid>>),
      StoreFile(<<L_nonobject>>) }

IdleDraft ==
    /\ git = "tagged" /\ preview = TRUE /\ version_file = "ok"
    /\ gitlog = <<>> /\ store = NoStore /\ dpc = "idle" /\ latest_tag = None
    /\ commits = <<>> /\ grouped = <<>> /\ draft = NoDraft /\ fault = NoFault
IdlePure == input = <<>> /\ output = Pending
IdleScaffold ==
    /\ changelog = NoFile /\ calls = 0 /\ last_version = None
    /\ prev_version = None /\ before_last = NoFile
NoPlan == [exists |-> FALSE, text |-> <<>>]
NoIdent == [created_by |-> None, owner |-> None]
NoTools == [bd |-> "missing", git |-> "missing", name |-> None, email |-> None]
IdleParse ==
    /\ lines = <<>> /\ items = <<>> /\ current_feature = 0 /\ current_task = 0
IdleMain ==
    /\ plan = NoPlan /\ tools = NoTools
    /\ prefix = None /\ ident = NoIdent /\ records = <<>>
IdlePlan == IdleParse /\ ppc = "idle" /\ IdleMain

InitDraft ==
    /\ git \in {"missing", "norepo", "notag", "tagged"}
    /\ preview \in BOOLEAN
    /\ version_file \in {"ok", "bad"}
    /\ gitlog \in Seqs(SubjectPool, MaxCommits)
    /\ store \in StorePool
    /\ dpc = "describe"
    /\ latest_tag = None /\ commits = <<>> /\ grouped = <<>>
    /\ draft = NoDraft /\ fault = NoFault
    /\ IdlePure /\ IdleScaffold /\ IdlePlan

NextDraft == DescribeTag \/ LogCommits \/ GroupCommits \/ AssembleDraft

SpecDraft == InitDraft /\ [][NextDraft]_vars

-----------------------------------------------------------------------------
(* categorize_commit applied to subjects of the form type(scope): message *)

\* the types the expression knows, and three it does not
TypePool == Range(ConvTypes) \cup {<<"w","i","p">>, <<"h","o","t","f","i","x">>, <<"F","e","a","t">>}
ScopePool == {<<>>, <<"(","a","p","i",")">>}
GapPool == {<<>>, <<" ">>, <<" ", " ">>}
\* messages: non-empty, without white space at either end
MessagePool == {<<"a","d","d"," ","x">>, <<"x">>, <<"y"," ","(","z",")">>}
TrailPool == {<<>>, <<" ">>}

ConvSubject(in) == in.type \o in.scope \o <<":">> \o in.gap \o in.message \o in.trail

InitCategorize ==
    /\ input \in [type : TypePool, scope : ScopePool, gap : GapPool,
                  message : MessagePool, trail : TrailPool]
    /\ output = Pending
    /\ IdleDraft /\ IdleScaffold /\ IdlePlan

Categorize ==
    /\ ~output.done
    /\ output' = Returned(categorize_commit(ConvSubject(input)))
    /\ UNCHANGED <<input, draftVars, scaffoldVars, planVars>>

NextCategorize == Categorize

SpecCategorize == InitCategorize /\ [][NextCategorize]_vars

-----------------------------------------------------------------------------
(* extract_beads_issue applied to subjects built from references and text *)

MaxParts == 3

Part(kind, id, text) == [kind |-> kind, id |-> id, text |-> text]

\* references (with the id as it must be returned) and plain text
PartPool ==
    { Part("paren", <<"a","1">>, <<"(","b","d","-","a","1",")">>),
      Part("paren", <<"b","2">>, <<"(","B","D","-","B","2",")">>),
      Part("closes", <<"c","3">>, <<"C","l","o","s","e","s"," ","b","e","a","d","s","-","b","l","u","e","p","r","i","n","t","-","c","3">>),
      Part("closes", <<"d","4">>, <<"c","l","o","s","e","s"," "," ","B","E","A","D","S","-","B","L","U","E","P","R","I","N","T","-","D","4">>),
      Part("text", <<>>, <<"f","i","x"," ">>),
      Part("text", <<>>, <<" ">>),
      Part("text", <<>>, <<"(","b","d","-",")">>),
      Part("text", <<>>, <<"(","x",")">>),
      Part("text", <<>>, <<"C","l","o","s","e","s"," ">>) }

RECURSIVE RefSubject(_)
RefSubject(parts) ==
    IF parts = <<>> THEN <<>> ELSE Head(parts).text \o RefSubject(Tail(parts))

InitExtract ==
    /\ input \in Seqs(PartPool, MaxParts)
    /\ output = Pending
    /\ IdleDraft /\ IdleScaffold /\ IdlePlan

Extract ==
    /\ ~output.done
    /\ output' = Returned(extract_beads_issue(RefSubject(input)))
    /\ UNCHANGED <<input, draftVars, scaffoldVars, planVars>>

NextExtract == Extract

SpecExtract == InitExtract /\ [][NextExtract]_vars

-----------------------------------------------------------------------------
(* build_section and ensure_version_section *)

S_heading == <<"#"," ","C","h","a","n","g","e","l","o","g">>
S_section_mark == <<"#","#"," ","v">>
S_released == <<"*","R","e","l","e","a","s","e","d",":"," ">>
S_placeholders == <<"#","#","#"," ","F","e","a","t","u","r","e","s","\n","\n","-"," ","T","B","D","\n","\n","#","#","#"," ","I","m","p","r","o","v","e","m","e","n","t","s","\n","\n","-"," ","T","B","D","\n","\n","#","#","#"," ","B","u","g"," ","F","i","x","e","s","\n","\n","-"," ","T","B","D","\n","\n">>

build_section(version_str, release_date) ==
    S_section_mark \o version_str \o <<"\n", "\n">>
    \o S_released \o release_date \o <<"*", "\n", "\n">>
    \o S_placeholders

\* str.splitlines(keepends=True), for text whose line ends are "\n"
RECURSIVE SplitLines(_)
SplitLinesAt(s, p) ==
    IF p = 0 THEN <<s>>
    ELSE <<Sub(s, 1, p)>> \o SplitLines(Sub(s, p + 1, Len(s)))
SplitLines(s) == IF s = <<>> THEN <<>> ELSE SplitLinesAt(s, Find(s, <<"\n">>))

\* list.insert(i, x), i counted from 0 and clipped to the length
ListInsert(seq, i, x) ==
    IF i >= Len(seq) THEN Append(seq, x)
    ELSE Sub(seq, 1, i) \o <<x>> \o Sub(seq, i + 1, Len(seq))

\* \b at the place before position q (q - 1 is the last character matched)
WordBoundary(s, q) == IsWord(s[q - 1]) # (q <= Len(s) /\ IsWord(s[q]))

\* rf"^## v{re.escape(version_str)}\b" with re.MULTILINE matches at p
SectionAt(content, p, head) ==
    /\ (p = 1 \/ content[p - 1] = "\n")
    /\ MatchAt(content, p, head)
    /\ WordBoundary(content, p + Len(head))

HasSection(content, version_str) ==
    \E p \in 1..Len(content) :
        SectionAt(content, p, S_section_mark \o version_str)

\* the lines of the file with the section put in, the heading added first
\* when the first line is not the heading
WithSection(ls, section) ==
    IF ls # <<>> /\ Strip(ls[1]) = S_heading
    THEN ListInsert(ls, 1, section)
    ELSE ListInsert(ListInsert(ListInsert(ls, 0, S_heading \o <<"\n">>),
                               1, <<"\n">>),
                    2, section)

\* the text written back for the text read
Ensured(content, version_str, release_date) ==
    IF HasSection(content, version_str) THEN content
    ELSE Concat(WithSection(SplitLines(content),
                            build_section(version_str, release_date)))

\* what the file holds when it is read: created with the heading if absent
ReadOrCreate(f) == IF f.exists THEN f.text ELSE S_heading \o <<"\n", "\n">>

MaxCalls == 2

VersionPool == {<<"1",".","2",".","3">>, <<"1",".","2">>, <<"2",".","0",".","0">>}
DatePool == {<<"2","0","2","6","-","0","1","-","0","1">>, <<"2","0","2","6","-","0","1","-","0","2">>}
ChangelogPool ==
    { NoFile,
      File(<<>>),
      File(<<"#"," ","C","h","a","n","g","e","l","o","g">>),
      File(<<"#"," ","C","h","a","n","g","e","l","o","g","\n">>),
      File(<<"#"," ","C","h","a","n","g","e","l","o","g","\n","\n","#","#"," ","v","1",".","2",".","3","\n","\n","-"," ","o","l","d","\n">>),
      File(<<"n","o","t","e","s","\n">>),
      File(<<"n","o","t","e","s">>),
      File(<<" ","#"," ","C","h","a","n","g","e","l","o","g"," ","\n","#","#"," ","v","2",".","0",".","0","-","r","c","\n">>) }

ensure_version_section(version_str, release_date) ==
    /\ calls < MaxCalls
    /\ changelog' = File(Ensured(ReadOrCreate(changelog), version_str,
                                 release_date))
    /\ calls' = calls + 1
    /\ last_version' = version_str
    /\ prev_version' = last_version
    /\ before_last' = changelog
    /\ UNCHANGED <<draftVars, pureVars, planVars>>

InitScaffold ==
    /\ changelog \in ChangelogPool
    /\ calls = 0 /\ last_version = None /\ prev_version = None
    /\ before_last = NoFile
    /\ IdleDraft /\ IdlePure /\ IdlePlan

NextScaffold ==
    \E v \in VersionPool, d \in DatePool : ensure_version_section(v, d)

SpecScaffold == InitScaffold /\ [][NextScaffold]_vars

-----------------------------------------------------------------------------
(* scripts/plan_to_beads.py: parse_priority and parse_plan *)

S_feature_mark == <<"#","#","#"," ","F","e","a","t","u","r","e",":">>
S_task_mark == <<"-"," ","T","a","s","k",":">>
S_subtask_mark == <<"-"," ","S","u","b","t","a","s","k",":">>
S_notes_mark == <<"-"," ","N","o","t","e","s",":">>
S_priority_mark == <<"[","P">>

DefaultPriority == 2

\* str.isdigit() and int() for decimal digits
IsDigits(v) == v # <<>> /\ \A i \in DOMAIN v : IsDigit(v[i])
DigitValue(c) == (CHOOSE i \in DOMAIN Digits : Digits[i] = c) - 1
RECURSIVE ToInt(_)
ToInt(v) ==
    IF v = <<>> THEN 0
    ELSE 10 * ToInt(Sub(v, 1, Len(v) - 1)) + DigitValue(v[Len(v)])

\* the marker read: value is what stands between the last "[P" and the
\* closing brackets, head what stands before
PriorityOf(text, head, value) ==
    IF IsDigits(value) THEN <<Strip(Strip(head)), ToInt(value)>>
    ELSE <<Strip(text), DefaultPriority>>

\* head, _, tail = text.rpartition("[P"), the last "[P" being at p
PriorityPartition(text, p) ==
    IF EndsWith(Sub(text, p + 2, Len(text)), <<"]">>)
    THEN PriorityOf(text, Sub(text, 1, p - 1),
                    RStripChar(Sub(text, p + 2, Len(text)), "]"))
    ELSE <<Strip(text), DefaultPriority>>

\* returns <<title, priority>>
parse_priority(text) ==
    IF Contains(text, S_priority_mark) /\ EndsWith(text, <<"]">>)
    THEN PriorityPartition(text, RFind(text, S_priority_mark))
    ELSE <<Strip(text), DefaultPriority>>

PlanItem(item_type, title, parent_title, priority, notes) ==
    [item_type |-> item_type, title |-> title, parent_title |-> parent_title,
     priority |-> priority, notes |-> notes]

\* the locals of parse_plan: current_feature and current_task refer to
\* elements of items (0 for None)
ParserState(its, cf, ct) == [items |-> its, current_feature |-> cf, current_task |-> ct]

\* `x.title if x else ""` for a reference into items
TitleOrEmpty(st, ref) == IF ref # 0 THEN st.items[ref].title ELSE <<>>

\* a feature line that forgets to reset current_task
FeatureItem_keeps_task(st, tp) ==
    ParserState(Append(st.items, PlanItem("feature", tp[1], None, tp[2], <<>>)),
                Len(st.items) + 1, st.current_task)

\* a "### Feature:" line, tp = parse_priority(title)
FeatureItem(st, tp) ==
    ParserState(Append(st.items, PlanItem("feature", tp[1], None, tp[2], <<>>)),
                Len(st.items) + 1, 0)
FeatureLine(st, line) ==
    FeatureItem(st, parse_priority(Strip(RemoveFirst(line, S_feature_mark))))

\* a task line that takes its parent from current_task
TaskItem_parent_from_task(st, tp) ==
    ParserState(Append(st.items,
                       PlanItem("task", tp[1],
                                TitleOrEmpty(st, st.current_task), tp[2], <<>>)),
                st.current_feature, Len(st.items) + 1)

\* a "- Task:" line
TaskItem(st, tp) ==
    ParserState(Append(st.items,
                       PlanItem("task", tp[1],
                                TitleOrEmpty(st, st.current_feature), tp[2], <<>>)),
                st.current_feature, Len(st.items) + 1)
TaskLine(st, line) ==
    TaskItem(st, parse_priority(Strip(AfterFirst(line, S_task_mark))))

\* a subtask line that makes the subtask the current task
SubtaskItem_becomes_current(st, tp) ==
    ParserState(Append(st.items,
                       PlanItem("task", tp[1],
                                TitleOrEmpty(st, st.current_task), tp[2], <<>>)),
                st.current_feature, Len(st.items) + 1)

\* a "- Subtask:" line: emitted as a task, current_task left alone
SubtaskItem(st, tp) ==
    ParserState(Append(st.items,
                       PlanItem("task", tp[1],
                                TitleOrEmpty(st, st.current_task), tp[2], <<>>)),
                st.current_feature, st.current_task)
SubtaskLine(st, line) ==
    SubtaskItem(st, parse_priority(Strip(AfterFirst(line, S_subtask_mark))))

\* a "- Notes:" line
AddNote(st, ref, note) ==
    [st EXCEPT !.items = [@ EXCEPT ![ref].notes = Append(@, note)]]
NotesTo(st, note) ==
    IF st.current_task # 0 THEN AddNote(st, st.current_task, note)
    ELSE IF st.current_feature # 0 THEN AddNote(st, st.current_feature, note)
    ELSE st
NotesLine(st, line) == NotesTo(st, Strip(AfterFirst(line, S_notes_mark)))

\* the body of the loop for line = raw_line.rstrip()
ParseLine(st, line) ==
    IF StartsWith(line, S_feature_mark) THEN FeatureLine(st, line)
    ELSE IF StartsWith(LStrip(line), S_task_mark) THEN TaskLine(st, line)
    ELSE IF StartsWith(LStrip(line), S_subtask_mark) THEN SubtaskLine(st, line)
    ELSE IF StartsWith(LStrip(line), S_notes_mark) THEN NotesLine(st, line)
    ELSE st

ParseStep(st, raw_line) == ParseLine(st, RStrip(raw_line))

\* parse_plan(lines) run to the end from the state st
RECURSIVE ParseAll(_, _)
ParseAll(st, raw_lines) ==
    IF raw_lines = <<>> THEN st
    ELSE ParseAll(ParseStep(st, Head(raw_lines)), Tail(raw_lines))

parse_plan(raw_lines) == ParseAll(ParserState(<<>>, 0, 0), raw_lines).items

-----------------------------------------------------------------------------
(* parse_plan, line by line *)

MaxLines == 4

\* a plan line: its text, and what it was written as (kind, and the title
\* or note it carries)
PlanLine(kind, title, text) == [kind |-> kind, title |-> title, text |-> text]

LinePool ==
    { PlanLine("feature", <<"F","o","o">>, <<"#","#","#"," ","F","e","a","t","u","r","e",":"," ","F","o","o"," ","[","P","1","]">>),
      PlanLine("feature", <<"G">>, <<"#","#","#"," ","F","e","a","t","u","r","e",":"," ","G"," "," ">>),
      PlanLine("task", <<"B","a","r">>, <<"-"," ","T","a","s","k",":"," ","B","a","r">>),
      PlanLine("task", <<"B","a","z">>, <<" "," ","-"," ","T","a","s","k",":"," ","B","a","z"," ","[","P","3","]">>),
      PlanLine("subtask", <<"s","u","b">>, <<" "," "," "," ","-"," ","S","u","b","t","a","s","k",":"," ","s","u","b"," ","[","P","0","]">>),
      PlanLine("notes", <<"n","1">>, <<"-"," ","N","o","t","e","s",":"," ","n","1">>),
      PlanLine("notes", <<"n","2">>, <<" "," "," ","-"," ","N","o","t","e","s",":"," "," ","n","2"," ">>),
      PlanLine("other", <<>>, <<"#","#"," ","P","l","a","n">>) }

InitParse ==
    /\ IdleParse
    /\ ppc = "parsing"
    /\ IdleMain
    /\ IdleDraft /\ IdlePure /\ IdleScaffold

Parsed(st) ==
    /\ items' = st.items
    /\ current_feature' = st.current_feature
    /\ current_task' = st.current_task

\* one turn of `for raw_line in lines`
ConsumeLine(l) ==
    /\ ppc = "parsing"
    /\ Len(lines) < MaxLines
    /\ lines' = Append(lines, l)
    /\ Parsed(ParseStep(ParserState(items, current_feature, current_task), l.text))
    /\ UNCHANGED <<ppc, mainVars, draftVars, pureVars, scaffoldVars>>

\* the lines are exhausted: return items
ReturnItems ==
    /\ ppc = "parsing"
    /\ ppc' = "returned"
    /\ UNCHANGED <<parseVars, mainVars, draftVars, pureVars, scaffoldVars>>

NextParse == (\E l \in LinePool : ConsumeLine(l)) \/ ReturnItems

SpecParse == InitParse /\ [][NextParse]_vars

-----------------------------------------------------------------------------
(* main of plan_to_beads.py: get_prefix, get_git_user, write_jsonl *)

S_default_prefix == <<"b","e","a","d","s","-","b","l","u","e","p","r","i","n","t">>
S_default_name == <<"U","s","e","r">>
S_default_email == <<"u","s","e","r","@","e","x","a","m","p","l","e",".","c","o","m">>
S_not_set == <<"(","n","o","t"," ","s","e","t",")">>
S_plan_label == <<"P","l","a","n",":"," ">>
S_parent_label == <<"P","a","r","e","n","t",":"," ">>
S_notes_label == <<"N","o","t","e","s",":"," ">>
S_plan_name == <<"p","l","a","n",".","m","d">>
S_now == <<"2","0","2","6","-","0","1","-","0","1","T","0","0",":","0","0",":","0","0","+","0","0",":","0","0">>
S_open == <<"o","p","e","n">>

\* subprocess.run(["bd", "config", "get", "issue.prefix"], check=False):
\* [started, returncode, stdout]; started is FALSE when the program is not
\* installed (FileNotFoundError)
Completed(rc, out) == [started |-> TRUE, returncode |-> rc, stdout |-> out]
NotStarted == [started |-> FALSE, returncode |-> 0, stdout |-> <<>>]

RunBdConfig ==
    CASE tools.bd = "missing" -> NotStarted
      [] tools.bd = "fails" -> Completed(1, <<>>)
      [] tools.bd = "notset" -> Completed(0, <<"i","s","s","u","e",".","p","r","e","f","i","x"," ","(","n","o","t"," ","s","e","t",")","\n">>)
      [] OTHER -> Completed(0, <<"p","r","o","j","\n">>)

\* subprocess.run(["git", "config", key], check=False): exit status 1 and
\* no output when the key is not set
RunGitConfig(value) ==
    IF tools.git = "missing" THEN NotStarted
    ELSE IF value = None THEN Completed(1, <<>>)
    ELSE Completed(0, value \o <<"\n">>)

PrefixFrom(result) ==
    IF /\ result.started
       /\ result.returncode = 0
       /\ Strip(result.stdout) # <<>>
       /\ ~Contains(Strip(result.stdout), S_not_set)
    THEN Strip(result.stdout)
    ELSE S_default_prefix

get_prefix == PrefixFrom(RunBdConfig)

\* the email read from the output whatever the exit status
GitUserFrom_email_unchecked(name_result, email_result) ==
    IF ~name_result.started \/ ~email_result.started
    THEN <<S_default_name, S_default_email>>
    ELSE <<IF name_result.returncode = 0 THEN Strip(name_result.stdout)
           ELSE S_default_name,
           Strip(email_result.stdout)>>

\* returns <<name, email>>
GitUserFrom(name_result, email_result) ==
    IF ~name_result.started \/ ~email_result.started
    THEN <<S_default_name, S_default_email>>
    ELSE <<IF name_result.returncode = 0 THEN Strip(name_result.stdout)
           ELSE S_default_name,
           IF email_result.returncode = 0 THEN Strip(email_result.stdout)
           ELSE S_default_email>>

get_git_user == GitUserFrom(RunGitConfig(tools.name), RunGitConfig(tools.email))

\* generate_id: the prefix and three random characters
SuffixPool == {<<"a","b","c">>, <<"0","z","9">>}
generate_id(pfx, suffix) == pfx \o <<"-">> \o suffix

\* ". ".join(parts)
build_description(item) ==
    Join(<<S_plan_label \o S_plan_name>>
         \o (IF Truthy(item.parent_title)
             THEN <<S_parent_label \o item.parent_title>> ELSE <<>>)
         \o (IF item.notes # <<>>
             THEN <<S_notes_label \o Join(item.notes, <<";", " ">>)>> ELSE <<>>),
         <<".", " ">>)

build_issue_json(item, pfx, owner, created_by, suffix) ==
    [id |-> generate_id(pfx, suffix),
     title |-> item.title,
     description |-> build_description(item),
     status |-> S_open,
     priority |-> item.priority,
     issue_type |-> item.item_type,
     owner |-> owner,
     created_at |-> S_now,
     created_by |-> created_by,
     updated_at |-> S_now]

\* the issues written by write_jsonl(items, ..., prefix, owner, created_by)
write_jsonl(its, pfx, owner, created_by, suffixes) ==
    [k \in DOMAIN its |->
        build_issue_json(its[k], pfx, owner, created_by, suffixes[k])]

\* str.splitlines()
DropLineEnd(l) == IF EndsWith(l, <<"\n">>) THEN Sub(l, 1, Len(l) - 1) ELSE l
PlainLinesOf(ls) == [i \in DOMAIN ls |-> DropLineEnd(ls[i])]
PlainLines(text) == PlainLinesOf(SplitLines(text))

\* plan_path.exists(), parse_plan(...), `if not items`
ReadItems(its) ==
    /\ items' = its
    /\ ppc' = IF its = <<>> THEN "exit1" ELSE "prefix"
    /\ UNCHANGED fault
ReadPlan ==
    /\ ppc = "start"
    /\ IF ~plan.exists
       THEN fault' = "FileNotFoundError" /\ ppc' = "crashed" /\ UNCHANGED items
       ELSE ReadItems(parse_plan(PlainLines(plan.text)))
    /\ UNCHANGED <<lines, current_feature, current_task, mainVars>>
    /\ UNCHANGED <<git, preview, version_file, gitlog, store, dpc, latest_tag,
                   commits, grouped, draft>>
    /\ UNCHANGED <<pureVars, scaffoldVars>>

\* prefix = get_prefix()
GetPrefix ==
    /\ ppc = "prefix"
    /\ prefix' = get_prefix
    /\ ppc' = "user"
    /\ UNCHANGED <<parseVars, plan, tools, ident, records>>
    /\ UNCHANGED <<draftVars, pureVars, scaffoldVars>>

\* created_by, owner = get_git_user()
GetGitUser ==
    /\ ppc = "user"
    /\ ident' = [created_by |-> get_git_user[1], owner |-> get_git_user[2]]
    /\ ppc' = "write"
    /\ UNCHANGED <<parseVars, plan, tools, prefix, records>>
    /\ UNCHANGED <<draftVars, pureVars, scaffoldVars>>

\* write_jsonl(items, plan_path, output_path, prefix, owner, created_by)
WriteJsonl(suffixes) ==
    /\ ppc = "write"
    /\ records' = write_jsonl(items, prefix, ident.owner, ident.created_by,
                              suffixes)
    /\ ppc' = "done"
    /\ UNCHANGED <<parseVars, plan, tools, prefix, ident>>
    /\ UNCHANGED <<draftVars, pureVars, scaffoldVars>>

PlanFile(text) == [exists |-> TRUE, text |-> text]
PlanPool ==
    { NoPlan,
      PlanFile(<<"#","#"," ","P","l","a","n","\n","\n","t","e","x","t","\n">>),
      PlanFile(<<"#","#","#"," ","F","e","a","t","u","r","e",":"," ","F","o","o"," ","[","P","1","]","\n","-"," ","T","a","s","k",":"," ","B","a","r","\n","-"," ","N","o","t","e","s",":"," ","n","1","\n">>),
      PlanFile(<<"-"," ","T","a","s","k",":"," ","B","a","r","\n"," "," ","-"," ","S","u","b","t","a","s","k",":"," ","s","u","b">>) }

ToolsPool ==
    [bd : {"missing", "fails", "notset", "set"},
     git : {"missing", "installed"},
     name : {None, <<"A","n","n">>},
     email : {None, <<"a","n","n","@","x",".","o","r","g">>}]

InitConvert ==
    /\ plan \in PlanPool
    /\ tools \in ToolsPool
    /\ ppc = "start"
    /\ prefix = None /\ ident = NoIdent /\ records = <<>>
    /\ IdleParse
    /\ IdleDraft /\ IdlePure /\ IdleScaffold

NextConvert ==
    \/ ReadPlan
    \/ GetPrefix
    \/ GetGitUser
    \/ \E suffixes \in [DOMAIN items -> SuffixPool] : WriteJsonl(suffixes)

SpecConvert == InitConvert /\ [][NextConvert]_vars

-----------------------------------------------------------------------------
(* parse_priority applied to a title text *)

MaxPieces == 3

\* what a title is made of: words, blanks, whole markers and marker fragments
PiecePool ==
    { <<"t">>, <<" ">>, <<"[","P","1","]">>, <<"[","P","1","2","]">>, <<"[","P","0","]">>,
      <<"[","P","]">>, <<"[","P","x","]">>, <<"]">>, <<"[","P">> }

RECURSIVE TitleText(_)
TitleText(pieces) ==
    IF pieces = <<>> THEN <<>> ELSE Head(pieces) \o TitleText(Tail(pieces))

InitPriority ==
    /\ input \in Seqs(PiecePool, MaxPieces)
    /\ output = Pending
    /\ IdleDraft /\ IdleScaffold /\ IdlePlan

ParsePriority ==
    /\ ~output.done
    /\ output' = Returned(parse_priority(TitleText(input)))
    /\ UNCHANGED <<input, draftVars, scaffoldVars, planVars>>

NextPriority == ParsePriority

SpecPriority == InitPriority /\ [][NextPriority]_vars

-----------------------------------------------------------------------------
(* Claims about the draft run *)

\* number of entries of the draft: every message listed under a category and
\* every issue listed under beads_issues
RECURSIVE SumLens(_)
SumLens(es) == IF es = <<>> THEN 0 ELSE Len(Head(es).value) + SumLens(Tail(es))
DraftEntries == SumLens(draft.grouped) + Len(draft.beads_issues)

InTracker(c) ==
    /\ Truthy(extract_beads_issue(c))
    /\ \E i \in DOMAIN draft.beads_issues :
          draft.beads_issues[i].key = extract_beads_issue(c)
InCategory(c) ==
    \E i \in DOMAIN draft.grouped :
        /\ draft.grouped[i].key = categorize_commit(c)[1]
        /\ categorize_commit(c)[2] \in Range(draft.grouped[i].value)

\* C1 (as claimed): in a written draft every commit is in exactly one of
\* beads_issues and grouped, none is omitted and no two commits share one
\* entry, so the draft has as many entries as commits.
C1_GroupingInvariant ==
    draft.written =>
        /\ \A i \in DOMAIN draft.commits :
              InTracker(draft.commits[i]) # InCategory(draft.commits[i])
        /\ DraftEntries = draft.commit_count

\* the commits of the draft that carry a tracker reference, by index
TrackerCommits ==
    {i \in DOMAIN draft.commits : Truthy(extract_beads_issue(draft.commits[i]))}

\* C1 (amended): in a written draft every commit with a tracker reference
\* has its id as a key of beads_issues, and every other commit has its
\* cleaned message under its category in grouped; grouped holds exactly one
\* entry per commit without reference, and beads_issues exactly one entry
\* per issue referred to, shared by all the commits that refer to it.
C1_EveryCommitRepresentedOnce ==
    draft.written =>
        /\ \A i \in DOMAIN draft.commits :
              IF i \in TrackerCommits THEN InTracker(draft.commits[i])
              ELSE InCategory(draft.commits[i])
        /\ SumLens(draft.grouped) =
              Cardinality(DOMAIN draft.commits \ TrackerCommits)
        /\ Len(draft.beads_issues) =
              Cardinality({extract_beads_issue(draft.commits[i]) :
                             i \in TrackerCommits})

\* a draft of two commits that refer to the same issue: one entry for both
C1_Witness ==
    /\ draft.written
    /\ draft.commit_count = 2
    /\ draft.commits[1] # draft.commits[2]
    /\ TrackerCommits = {1, 2}
    /\ Len(draft.beads_issues) = 1
    /\ draft.grouped = <<>>

\* C7 (as claimed): an unavailable git (not installed, failing, no tag) never
\* ends generate_draft_json with an unhandled fault; the run falls back to
\* "initial commit" or an empty commit list.
C7_EnvironmentNeverFatal ==
    /\ (git # "tagged" => fault \notin {"FileNotFoundError", "CalledProcessError"})
    /\ (git # "tagged" /\ draft.written => draft.since_tag = S_initial_commit)
    /\ (git = "norepo" /\ dpc \notin {"describe", "log"} => commits = <<>>)

\* the store has an object line carrying the constructed id of issue_id
StoreHasId(issue_id) ==
    /\ store.exists
    /\ \E i \in DOMAIN store.lines :
          /\ store.lines[i].kind = "object"
          /\ store.lines[i].id = S_store_prefix \o issue_id

\* C8 (as claimed): the title lookup never raises, whatever the store holds,
\* and a commit whose issue has no line in the store (or no store at all) is
\* filed under the fallback title "Issue <id>".
C8_TitleLookupDegrades ==
    /\ fault # "AttributeError"
    /\ \A i \in DOMAIN grouped : \A j \in DOMAIN grouped[i].items :
          LET id == extract_beads_issue(grouped[i].items[j][2])
          IN (Truthy(id) /\ ~StoreHasId(id)) =>
                grouped[i].items[j][1] = S_issue \o id

-----------------------------------------------------------------------------
(* Claims about categorize_commit *)

\* the type -> category table of the claim
KnownTable ==
    { <<S_feat, Features>>, <<S_fix, BugFixes>>, <<S_docs, Documentation>>,
      <<S_perf, Performance>>, <<S_refactor, CodeQuality>> }
KnownTypes == {e[1] : e \in KnownTable}
\* the other types the conventional-commit expression recognises
OtherConvTypes == {S_test, S_chore, S_style, S_build, S_ci}

\* C2 (as claimed): a known type gives the table's category and the trimmed
\* message, every other type gives the category Other.
C2_EveryOtherTypeIsOther ==
    output.done =>
        IF input.type \in KnownTypes
        THEN <<input.type, output.value[1]>> \in KnownTable
             /\ output.value[2] = input.message
        ELSE output.value[1] = Other

\* C2 (amended): a known type gives the table's category and the trimmed
\* message; test, chore, style, build and ci give Other and the trimmed
\* message; a type the expression does not recognise makes the subject no
\* conventional commit: the message is the whole subject, uncleaned, and the
\* category is whatever the keyword heuristics say.
C2_CategoryTable ==
    output.done =>
        CASE input.type \in KnownTypes ->
                /\ <<input.type, output.value[1]>> \in KnownTable
                /\ output.value[2] = input.message
          [] input.type \in OtherConvTypes ->
                /\ output.value[1] = Other
                /\ output.value[2] = input.message
          [] OTHER ->
                /\ output.value[2] = ConvSubject(input)
                /\ output.value[1] \in {Features, BugFixes, Other}

\* a scoped perf commit with white space around the message was classified
C2_Witness ==
    /\ output.done
    /\ input.type = S_perf /\ input.scope # <<>>
    /\ input.gap # <<>> /\ input.trail # <<>>
    /\ output.value[1] = Performance

-----------------------------------------------------------------------------
(* Claims about extract_beads_issue *)

KindsOf(parts) == {parts[i].kind : i \in DOMAIN parts}
FirstOfKind(parts, kind) ==
    parts[CHOOSE i \in DOMAIN parts :
            /\ parts[i].kind = kind
            /\ \A j \in 1..(i - 1) : parts[j].kind # kind]

\* C3: a subject with a parenthetical reference gives that reference's id in
\* lower case, whatever surrounds it and also when a Closes reference comes
\* before or after it; a subject with neither reference gives None.
C3_ParentheticalWins ==
    output.done =>
        /\ "paren" \in KindsOf(input) =>
              output.value = FirstOfKind(input, "paren").id
        /\ KindsOf(input) \subseteq {"text"} => output.value = None

\* a Closes reference followed by an upper-case parenthetical one gave the
\* parenthetical id, lowered
C3_Witness ==
    /\ output.done
    /\ Len(input) >= 2
    /\ input[1].kind = "closes"
    /\ input[2].kind = "paren"
    /\ output.value = input[2].id
    /\ output.value = <<"b", "2">>

-----------------------------------------------------------------------------
(* Claims about ensure_version_section *)

\* C6 (as claimed): whatever changelog.md held at first, a call that follows
\* a call with the same version leaves the file byte-identical.
C6_InsertionIdempotent ==
    (calls >= 2 /\ last_version = prev_version) => changelog = before_last

-----------------------------------------------------------------------------
(* Claims about parse_plan *)

\* the lines that emit an item, by index, in line order
EmitIdx ==
    SelectSeq([i \in 1..Len(lines) |-> i],
              LAMBDA i : lines[i].kind \in {"feature", "task", "subtask"})

\* the last line of that kind after line lo and before line i, 0 if none
LastOf(kind, lo, i) ==
    IF \E j \in (lo + 1)..(i - 1) : lines[j].kind = kind
    THEN SetMax({j \in (lo + 1)..(i - 1) : lines[j].kind = kind})
    ELSE 0

LastFeature(i) == LastOf("feature", 0, i)
\* the last task line since the last feature line
EnclosingTask(i) == LastOf("task", LastFeature(i), i)

TitleAt(i) == IF i = 0 THEN <<>> ELSE lines[i].title

\* C4: items are emitted in line order; a feature line gives a feature item
\* without parent (None); a task line gives a task item whose parent_title
\* is the title of the last feature line before it, "" when there is none.
C4_TaskParentIsLastFeature ==
    /\ Len(items) = Len(EmitIdx)
    /\ \A k \in DOMAIN items :
          /\ items[k].title = lines[EmitIdx[k]].title
          /\ lines[EmitIdx[k]].kind = "feature" =>
                /\ items[k].item_type = "feature"
                /\ items[k].parent_title = None
          /\ lines[EmitIdx[k]].kind = "task" =>
                /\ items[k].item_type = "task"
                /\ items[k].parent_title = TitleAt(LastFeature(EmitIdx[k]))

\* task, feature, feature, task: the first task has parent "", the second
\* the title of the second feature
C4_Witness ==
    /\ ppc = "returned"
    /\ Len(lines) = 4
    /\ <<lines[1].kind, lines[2].kind, lines[3].kind, lines[4].kind>>
          = <<"task", "feature", "feature", "task">>
    /\ lines[2].title # lines[3].title
    /\ items[1].parent_title = <<>>
    /\ items[4].parent_title = lines[3].title

\* C5: a subtask line gives a task item whose parent_title is the title of
\* the last task line since the last feature line, never the feature's
\* title, and "" when no task line came since the last feature line.
C5_SubtaskParentIsEnclosingTask ==
    /\ Len(items) = Len(EmitIdx)
    /\ \A k \in DOMAIN items :
          lines[EmitIdx[k]].kind = "subtask" =>
             /\ items[k].item_type = "task"
             /\ items[k].parent_title = TitleAt(EnclosingTask(EmitIdx[k]))

\* feature, task, feature, subtask: the subtask has parent "", not the title
\* of the first feature's task
C5_Witness ==
    /\ ppc = "returned"
    /\ Len(lines) = 4
    /\ <<lines[1].kind, lines[2].kind, lines[3].kind, lines[4].kind>>
          = <<"feature", "task", "feature", "subtask">>
    /\ items[4].item_type = "task"
    /\ items[4].parent_title = <<>>
    /\ items[2].title # <<>>

\* where a notes line goes: the enclosing task, else the last feature, else
\* nowhere (0)
Route(i) == IF EnclosingTask(i) # 0 THEN EnclosingTask(i) ELSE LastFeature(i)

\* the notes routed to line i, in line order
NotesOfLines(idx) == [n \in DOMAIN idx |-> lines[idx[n]].title]
NotesFor(i) ==
    NotesOfLines(SelectSeq([j \in 1..Len(lines) |-> j],
                           LAMBDA j : lines[j].kind = "notes" /\ Route(j) = i))

\* C10: every notes line is appended, in line order, to the current task if
\* there is one, else to the current feature, else dropped; a subtask does
\* not become the current task, so its item never has notes.
C10_NotesRouting ==
    /\ Len(items) = Len(EmitIdx)
    /\ \A k \in DOMAIN items :
          /\ items[k].notes = NotesFor(EmitIdx[k])
          /\ lines[EmitIdx[k]].kind = "subtask" => items[k].notes = <<>>

\* feature, task, subtask, notes: the note is on the task, not the subtask
C10_Witness ==
    /\ ppc = "returned"
    /\ Len(lines) = 4
    /\ <<lines[1].kind, lines[2].kind, lines[3].kind, lines[4].kind>>
          = <<"feature", "task", "subtask", "notes">>
    /\ items[1].notes = <<>>
    /\ items[2].notes = <<lines[4].title>>
    /\ items[3].notes = <<>>

-----------------------------------------------------------------------------
(* Claims about the plan conversion run *)

\* the local identity: what git config holds, or the literal fallback
ConfiguredName ==
    IF tools.git = "installed" /\ tools.name # None THEN tools.name
    ELSE S_default_name
ConfiguredEmail ==
    IF tools.git = "installed" /\ tools.email # None THEN tools.email
    ELSE S_default_email

\* C9 (as claimed): every record written has the identity's name as owner
\* and its email as created_by, "User" and "user@example.com" when the
\* identity is not available.
C9_IdentityFields ==
    ppc = "done" =>
        \A k \in DOMAIN records :
            /\ records[k].owner = ConfiguredName
            /\ records[k].created_by = ConfiguredEmail

\* C9 (amended): every record written has the identity's email as owner
\* and its name as created_by; a value git does not give falls back to
\* "user@example.com" for owner and to "User" for created_by.
C9_OwnerIsEmailCreatedByIsName ==
    ppc = "done" =>
        \A k \in DOMAIN records :
            /\ records[k].owner = ConfiguredEmail
            /\ records[k].created_by = ConfiguredName

\* records were written with a configured name and no configured email
C9_Witness ==
    /\ ppc = "done"
    /\ Len(records) >= 2
    /\ tools.git = "installed"
    /\ tools.name # None
    /\ tools.email = None
    /\ records[1].owner = S_default_email
    /\ records[1].created_by = tools.name

-----------------------------------------------------------------------------
(* Claims about parse_priority *)

\* a marker "[P<digits>]" stands at p and closes the text t
MarkerAt(t, p) ==
    /\ p + 3 <= Len(t)
    /\ MatchAt(t, p, S_priority_mark)
    /\ t[Len(t)] = "]"
    /\ IsDigits(Sub(t, p + 2, Len(t) - 1))

HasTrailingMarker(t) == \E p \in DOMAIN t : MarkerAt(t, p)
MarkerPos(t) == CHOOSE p \in DOMAIN t : MarkerAt(t, p)

\* the title and the priority a well-formed trailing marker at p stands for
SplitMarker(t, p) == <<Strip(Sub(t, 1, p - 1)), ToInt(Sub(t, p + 2, Len(t) - 1))>>

\* the text is handed back as it is (trimmed) with the default priority
Untouched(text) == <<Strip(text), DefaultPriority>>

\* C11 (as claimed): the result differs from (text, 2) only when the trimmed
\* text ends with a well-formed marker [P<digits>], and then it is (text
\* without the marker, value of the digits); for every other text (no marker,
\* marker not at the end, empty or non-digit content, extra closing brackets)
\* the text comes back untouched with priority 2.
C11_MarkerOnlyWhenWellFormed ==
    output.done =>
        /\ output.value # Untouched(TitleText(input)) =>
              /\ HasTrailingMarker(Strip(TitleText(input)))
              /\ output.value = SplitMarker(Strip(TitleText(input)),
                                            MarkerPos(Strip(TitleText(input))))
        /\ ~HasTrailingMarker(Strip(TitleText(input))) =>
              output.value = Untouched(TitleText(input))

====
